---- MODULE Spec2Model ----
(***************************************************************************)
(* A model of stderrlog (src/src/lib.rs): the StdErrLog builder, its       *)
(* module filter (_module / includes_module / is_submodule), the enabled  *)
(* check, registration with the log facade (init) and the emission path   *)
(* (log) run by several threads against the shared stderr stream.         *)
(*                                                                         *)
(* Module paths are Rust strings; they are modelled as sequences of byte   *)
(* values so that ordering and slicing are the byte-wise operations the    *)
(* code performs.                                                          *)
(***************************************************************************)
EXTENDS Integers, Sequences, FiniteSets, TLC

(***************************************************************************)
(* Bounds of the model.                                                    *)
(***************************************************************************)
\* longest generated module path, in bytes
MaxLen == 2
\* number of paths handed to module()/modules() in one behaviour
MaxInserts == 3
\* longest argument of one modules() call
MaxBatch == 2
\* largest repeat count handed to verbosity()
MaxVerbosity == 5

(***************************************************************************)
(* Bytes and paths.                                                        *)
(***************************************************************************)
\* the byte values of the characters used; '1' sorts below ':', the
\* letters sort above it
Ascii == [digit1 |-> 49, colon |-> 58, a |-> 97, b |-> 98, c |-> 99,
          d |-> 100, x |-> 120, y |-> 121]
Digit1 == Ascii.digit1
Colon == Ascii.colon
LowerA == Ascii.a
LowerB == Ascii.b
LowerC == Ascii.c
LowerD == Ascii.d
LowerX == Ascii.x
LowerY == Ascii.y

Alphabet == {Digit1, Colon, LowerA}

Sep == <<Colon, Colon>>

RECURSIVE StringsOfLen(_)
StringsOfLen(n) ==
    IF n = 0 THEN {<<>>}
    ELSE {Append(s, b) : s \in StringsOfLen(n - 1), b \in Alphabet}

\* the paths of tests::submodule (lib.rs 397-404) and of the documented
\* scenarios: "a", "a::b", "a::b::c", "a::b::c::d", "a::bad", "a::bad::c",
\* "a::b::cab", "a::b::cab::d", "x::y"
P_a == <<LowerA>>
P_a_b == P_a \o Sep \o <<LowerB>>
P_a_b_c == P_a_b \o Sep \o <<LowerC>>
P_a_b_c_d == P_a_b_c \o Sep \o <<LowerD>>
P_a_bad == P_a \o Sep \o <<LowerB, LowerA, LowerD>>
P_a_bad_c == P_a_bad \o Sep \o <<LowerC>>
P_a_b_cab == P_a_b \o Sep \o <<LowerC, LowerA, LowerB>>
P_a_b_cab_d == P_a_b_cab \o Sep \o <<LowerD>>
P_x_y == <<LowerX>> \o Sep \o <<LowerY>>
\* "a1": a sibling of "a" whose name sorts between "a" and "a::b"
P_a1 == <<LowerA, Digit1>>

ScenarioPaths ==
    {P_a, P_a_b, P_a_b_c, P_a_b_c_d, P_a_bad, P_a_bad_c, P_a_b_cab,
     P_a_b_cab_d, P_x_y, P_a1}

\* every byte string over Alphabet of length 0..MaxLen, and the scenarios
Paths == (UNION {StringsOfLen(n) : n \in 0..MaxLen}) \cup ScenarioPaths

(***************************************************************************)
(* str::cmp / <String as Ord>::cmp: lexicographic comparison of the bytes. *)
(* -1 is Less, 0 is Equal, 1 is Greater.                                   *)
(***************************************************************************)
RECURSIVE cmp(_, _)
cmp(s, t) ==
    IF s = <<>> THEN (IF t = <<>> THEN 0 ELSE -1)
    ELSE IF t = <<>> THEN 1
    ELSE IF Head(s) < Head(t) THEN -1
    ELSE IF Head(s) > Head(t) THEN 1
    ELSE cmp(Tail(s), Tail(t))

(***************************************************************************)
(* is_submodule(parent, possible_child), lib.rs 369-389.                   *)
(***************************************************************************)
\* faulty variant: the separator test dropped, a plain byte-prefix test remains
is_submodule_prefix_only(parent, possible_child) ==
    IF Len(parent) > Len(possible_child) THEN FALSE
    ELSE parent = SubSeq(possible_child, 1, Len(parent))

is_submodule(parent, possible_child) ==
    IF Len(parent) > Len(possible_child) THEN FALSE
    ELSE IF parent # SubSeq(possible_child, 1, Len(parent)) THEN FALSE
    ELSE \/ Len(parent) = Len(possible_child)
         \* possible_child.get(len..len + 2) == Some(b"::")
         \/ /\ Len(parent) + 2 <= Len(possible_child)
            /\ SubSeq(possible_child, Len(parent) + 1, Len(parent) + 2) = Sep

(***************************************************************************)
(* slice::binary_search_by: the bisection of the standard library, on the  *)
(* 0-based indices of the code.  The result is Ok(idx) or Err(idx).        *)
(***************************************************************************)
Ok(i) == [ok |-> TRUE, idx |-> i]
Err(i) == [ok |-> FALSE, idx |-> i]

RECURSIVE search(_, _, _)
search(s, base, x) ==
    LET half == Len(s) \div 2
        head == SubSeq(s, 1, half)
        tail == SubSeq(s, half + 1, Len(s))
    IN  IF tail = <<>> THEN Err(base)
        ELSE IF cmp(tail[1], x) = -1 THEN search(Tail(tail), base + half + 1, x)
        ELSE IF cmp(tail[1], x) = 1 THEN search(head, base, x)
        ELSE Ok(base + half)

binary_search(list, x) == search(list, 0, x)

(***************************************************************************)
(* StdErrLog::_module, lib.rs 288-305.  mods[i] below is the code's        *)
(* self.modules[i - 1]: TLA+ sequences are 1-based.                        *)
(***************************************************************************)
RECURSIVE take_while_count(_, _)
take_while_count(rest, module) ==
    IF rest = <<>> THEN 0
    ELSE IF is_submodule(module, Head(rest))
         THEN 1 + take_while_count(Tail(rest), module)
         ELSE 0

\* the number of entries the call drains (submodule_count), -1 when the
\* call does not insert
drained(mods, module) ==
    LET r == binary_search(mods, module)
        i == r.idx
    IN  IF r.ok THEN -1
        ELSE IF i = 0 \/ ~is_submodule(mods[i], module)
             THEN take_while_count(SubSeq(mods, i + 1, Len(mods)), module)
             ELSE -1

\* faulty variant: the drain of the submodules is left out
module_no_drain(mods, module) ==
    LET r == binary_search(mods, module)
        i == r.idx
    IN  IF r.ok THEN mods
        ELSE IF i = 0 \/ ~is_submodule(mods[i], module)
             THEN SubSeq(mods, 1, i) \o <<module>> \o SubSeq(mods, i + 1, Len(mods))
             ELSE mods

\* faulty variant: an exact match is inserted again
module_reinserts(mods, module) ==
    LET r == binary_search(mods, module)
        i == r.idx
    IN  IF r.ok
        THEN SubSeq(mods, 1, i) \o <<module>> \o SubSeq(mods, i + 1, Len(mods))
        ELSE IF i = 0 \/ ~is_submodule(mods[i], module)
             THEN LET submodule_count ==
                          take_while_count(SubSeq(mods, i + 1, Len(mods)), module)
                  IN  SubSeq(mods, 1, i) \o <<module>>
                          \o SubSeq(mods, i + submodule_count + 1, Len(mods))
             ELSE mods

_module(mods, module) ==
    LET r == binary_search(mods, module)
        i == r.idx
    IN  IF r.ok THEN mods
        ELSE IF i = 0 \/ ~is_submodule(mods[i], module)
             THEN LET submodule_count ==
                          take_while_count(SubSeq(mods, i + 1, Len(mods)), module)
                  IN  SubSeq(mods, 1, i) \o <<module>>
                          \o SubSeq(mods, i + submodule_count + 1, Len(mods))
             ELSE mods

\* StdErrLog::modules, lib.rs 308-315: module() for each item, in order
RECURSIVE modules_fold(_, _)
modules_fold(mods, items) ==
    IF items = <<>> THEN mods
    ELSE modules_fold(_module(mods, Head(items)), Tail(items))

(***************************************************************************)
(* StdErrLog::includes_module, lib.rs 325-346.                             *)
(***************************************************************************)
\* faulty variant: the early return for an empty list is left out
includes_module_no_sentinel(mods, module_path) ==
    LET r == binary_search(mods, module_path)
    IN  IF r.ok THEN TRUE
        ELSE IF r.idx = 0 THEN FALSE
        ELSE is_submodule(mods[r.idx], module_path)

includes_module(mods, module_path) ==
    IF mods = <<>> THEN TRUE
    ELSE LET r == binary_search(mods, module_path)
         IN  IF r.ok THEN TRUE
             ELSE IF r.idx = 0 THEN FALSE
             ELSE is_submodule(mods[r.idx], module_path)


(***************************************************************************)
(* log::LogLevel and log::LogLevelFilter: the facade's enums, compared by  *)
(* their discriminants (Off = 0 exists only in the filter).                *)
(***************************************************************************)
LogLevelFilter == [Off |-> 0, Error |-> 1, Warn |-> 2, Info |-> 3, Debug |-> 4, Trace |-> 5]
LogLevel == [Error |-> 1, Warn |-> 2, Info |-> 3, Debug |-> 4, Trace |-> 5]
Levels == {LogLevel.Error, LogLevel.Warn, LogLevel.Info, LogLevel.Debug, LogLevel.Trace}

\* the match of StdErrLog::verbosity, lib.rs 253-259
\* faulty variant: the match arms start one count late
verbosity_level_shifted(n) ==
    IF n <= 1 THEN LogLevelFilter.Error
    ELSE IF n = 2 THEN LogLevelFilter.Warn
    ELSE IF n = 3 THEN LogLevelFilter.Info
    ELSE IF n = 4 THEN LogLevelFilter.Debug
    ELSE LogLevelFilter.Trace

verbosity_level(n) ==
    IF n = 0 THEN LogLevelFilter.Error
    ELSE IF n = 1 THEN LogLevelFilter.Warn
    ELSE IF n = 2 THEN LogLevelFilter.Info
    ELSE IF n = 3 THEN LogLevelFilter.Debug
    ELSE LogLevelFilter.Trace

\* StdErrLog::log_level_filter, lib.rs 317-323
\* faulty variant: the quiet flag is ignored
log_level_filter_ignores_quiet(q, v) == v

log_level_filter(q, v) == IF q THEN LogLevelFilter.Off ELSE v

\* StdErrLog::enabled, lib.rs 192-194
\* faulty variant: the module filter is not consulted
enabled_level_only(q, v, mods, level, target) == level <= log_level_filter(q, v)

\* faulty variant: every record passes
enabled_always(q, v, mods, level, target) == TRUE

enabled(q, v, mods, level, target) ==
    level <= log_level_filter(q, v) /\ includes_module(mods, target)

(***************************************************************************)
(* State.                                                                  *)
(***************************************************************************)
VARIABLES
    \* the StdErrLog being configured (lib.rs 159-166)
    verbosity,       \* StdErrLog.verbosity
    quiet,           \* StdErrLog.quiet
    verbosity_arg,   \* history: the argument of the latest verbosity call, -1 if none
    modules,         \* StdErrLog.modules
    \* history of the module()/modules() calls
    inserted,        \* every path handed over so far
    calls,           \* how many paths were handed over
    lastModule,      \* the argument of the latest _module call
    lastBefore,      \* self.modules when that call started
    lastDrained,     \* its submodule_count, -1 if it did not insert
    timestamp,       \* StdErrLog.timestamp
    color_choice,    \* StdErrLog.color_choice
    \* the latest is_submodule call and the latest enabled call
    sub_call,
    enabled_call,
    \* the latest clone() of the logger and how many were made
    cloned,
    \* the log facade's globals (log::set_logger) and the init calls
    LOGGER_STATE,            \* log's STATE: UNINITIALIZED / INITIALIZING / INITIALIZED
    LOGGER,                  \* the registered logger
    MAX_LOG_LEVEL_FILTER,    \* the global maximum level
    init_pc,                 \* per thread: where its init call stands
    init_ticket,             \* per thread: the rank of its call among all calls
    init_count,              \* init calls started so far
    init_results,            \* history: what each finished init call returned
    \* emission: the per-thread writers, the log calls in flight, the stream
    writer,          \* StdErrLog.writer: per thread, its cached handle
    log_pc,          \* per thread: where its log call stands
    log_rec,         \* per thread: the record it is logging
    todo,            \* per thread: the pieces its write!/writeln! has yet to write
    logged,          \* per thread: log calls made so far
    returned,        \* per thread: log calls that returned normally
    failed,          \* per thread, history: the steps whose I/O failed
    failures,        \* I/O failures so far
    stderr           \* the shared stream: the writes it received, in order

filterVars == <<modules, inserted, calls, lastModule, lastBefore, lastDrained>>
levelVars == <<verbosity, quiet, verbosity_arg>>
styleVars == <<timestamp, color_choice>>
callVars == <<sub_call, enabled_call, cloned>>
facadeVars == <<LOGGER_STATE, LOGGER, MAX_LOG_LEVEL_FILTER, init_pc, init_ticket, init_count,
                init_results>>
emitVars == <<writer, log_pc, log_rec, todo, logged, returned, failed, failures, stderr>>
vars == <<filterVars, levelVars, styleVars, callVars, facadeVars, emitVars>>

\* the threads of the process
NThreads == 2
Threads == 1..NThreads

\* Timestamp, lib.rs 147-156, and termcolor::ColorChoice, lib.rs 143
TimestampModes == {"Off", "Second", "Microsecond", "Nanosecond"}
ColorChoices == {"Always", "Never", "Auto"}

\* the value of a StdErrLog: its fields; writer is the per-thread cache
StdErrLog(v, q, ts, mods, w, cc) ==
    [verbosity |-> v, quiet |-> q, timestamp |-> ts, modules |-> mods,
     writer |-> w, color_choice |-> cc]

\* a thread's slot of the CachedThreadLocal: empty, or the
\* RefCell<LineWriter<StandardStream>> made at lib.rs 204.  buf is the line
\* buffer, need_flush the LineWriter's flag, colored whether the stream
\* writes color sequences.
NoHandle == [cached |-> FALSE, borrowed |-> FALSE, colored |-> FALSE,
             buf |-> <<>>, need_flush |-> FALSE]

\* CachedThreadLocal::new(): no thread has a handle
EmptyCache == [t \in Threads |-> NoHandle]

\* Clone for StdErrLog, lib.rs 181-189
\* faulty variant: the writer cache is copied along with the configuration
clone_keeps_writer(self) == self

clone(self) ==
    [self EXCEPT !.writer = EmptyCache]

\* log::set_logger: the compare_and_swap(UNINITIALIZED, INITIALIZING) that
\* admits a call to the initialisation
\* faulty variant: a check that only looks for a finished initialisation
cas_admits_unless_initialized(state) == state # "INITIALIZED"

cas_admits(state) == state = "UNINITIALIZED"

\* "no path"
None == <<0>>

(***************************************************************************)
(* Emission, lib.rs 196-235.  The writer of a thread is a                  *)
(* LineWriter<StandardStream>: what write!/writeln! hand to it piece by    *)
(* piece is kept in its buffer and reaches the stream as one write when a  *)
(* newline arrives, or earlier when the buffer would overflow; a piece no  *)
(* smaller than the buffer is written directly.  set_color and reset go    *)
(* through get_mut(), past the buffer, straight to the stream.  Every      *)
(* write to the stream is atomic (the stream is locked per write) and may  *)
(* fail.                                                                   *)
(***************************************************************************)
\* log calls in one behaviour, over all threads
MaxLogs == 2
\* I/O failures in one behaviour
MaxFailures == 1
\* the message lengths logged, in bytes: one far below the line buffer's
\* capacity and one above it
ShortMsg == 9
LongMsg == 1100
MsgLens == {ShortMsg, LongMsg}

\* io::LineWriter::new, lib.rs 204: the capacity of the line buffer
LineWriterCapacity == 1024

\* a record handed to log(): id is <<thread, number of its log call>>
Record(id, level, target, len) == [id |-> id, level |-> level, target |-> target, len |-> len]
NoRecord == Record(<<0, 0>>, LogLevel.Error, <<>>, 0)

\* one write_all handed to the writer: len bytes of record rec, the last of
\* which is a newline iff nl
Piece(rec, len, nl) == [rec |-> rec, len |-> len, nl |-> nl]

\* the color of a level, lib.rs 206-212
level_color(level) ==
    CASE level = LogLevel.Error -> "Red"
      [] level = LogLevel.Warn -> "Magenta"
      [] level = LogLevel.Info -> "Yellow"
      [] level = LogLevel.Debug -> "Cyan"
      [] OTHER -> "Blue"

\* the bytes of record.level() as displayed: ERROR, WARN, INFO, DEBUG, TRACE
level_name_len(level) == IF level \in {LogLevel.Warn, LogLevel.Info} THEN 4 ELSE 5

\* the bytes of Local::now().format(fmt), lib.rs 216-230
timestamp_len(ts) ==
    CASE ts = "Second" -> 25
      [] ts = "Microsecond" -> 32
      [] ts = "Nanosecond" -> 35
      [] OTHER -> 0

\* write!(writer, "{} - ", Local::now().format(fmt)), lib.rs 216-230
timestamp_pieces(ts, rec) ==
    IF ts = "Off" THEN <<>>
    ELSE <<Piece(rec.id, timestamp_len(ts), FALSE), Piece(rec.id, 3, FALSE)>>

\* writeln!(writer, "{} - {}", record.level(), record.args()), lib.rs 231
body_pieces(rec) ==
    <<Piece(rec.id, level_name_len(rec.level), FALSE), Piece(rec.id, 3, FALSE),
      Piece(rec.id, rec.len, FALSE), Piece(rec.id, 1, TRUE)>>

RECURSIVE BufLen(_)
BufLen(buf) == IF buf = <<>> THEN 0 ELSE Head(buf).len + BufLen(Tail(buf))

\* the leading pieces that only enter the buffer: no newline, and room left
RECURSIVE buffer_pieces(_, _)
buffer_pieces(buf, pieces) ==
    IF pieces = <<>> THEN [buf |-> buf, todo |-> pieces]
    ELSE LET p == Head(pieces)
         IN  IF ~p.nl /\ BufLen(buf) + p.len <= LineWriterCapacity
                      /\ p.len < LineWriterCapacity
             THEN buffer_pieces(Append(buf, p), Tail(pieces))
             ELSE [buf |-> buf, todo |-> pieces]

\* StandardStream::stderr(self.color_choice): whether the stream writes
\* color sequences; with Auto the environment decides
ColoredOutcomes(choice) ==
    IF choice = "Always" THEN {TRUE}
    ELSE IF choice = "Never" THEN {FALSE}
    ELSE BOOLEAN

\* self.writer.get_or(|| Box::new(RefCell::new(LineWriter::new(..)))),
\* then borrow_mut(), lib.rs 203-205
get_or(h, colored) ==
    IF h.cached THEN [h EXCEPT !.borrowed = TRUE]
    ELSE [cached |-> TRUE, borrowed |-> TRUE, colored |-> colored,
          buf |-> <<>>, need_flush |-> FALSE]

\* .expect(..) on the result of set_color / reset, lib.rs 214 and 233
expect(ok) == IF ok THEN "continue" ELSE "panic"

\* let _ = write!(..) / writeln!(..), lib.rs 219-231: the result is dropped
\* faulty variant: the result is unwrapped
write_result_unwrapped(ok) == IF ok THEN "continue" ELSE "panic"

write_result(ok) == "continue"

\* one write received by the stream
ColorChunk(t, rec, kind, color) ==
    [thread |-> t, rec |-> rec.id, kind |-> kind, color |-> color, segs |-> <<>>]
TextChunk(t, rec, segs) ==
    [thread |-> t, rec |-> rec.id, kind |-> "text", color |-> "", segs |-> segs]

\* StdErrLog::new, lib.rs 240-249
Init ==
    /\ verbosity = LogLevelFilter.Error
    /\ quiet = FALSE
    /\ verbosity_arg = -1
    /\ modules = <<>>
    /\ inserted = {}
    /\ calls = 0
    /\ lastModule = None
    /\ lastBefore = <<>>
    /\ lastDrained = -1
    /\ timestamp = "Off"
    /\ color_choice = "Auto"
    /\ sub_call = [called |-> FALSE, parent |-> <<>>, possible_child |-> <<>>,
                   result |-> FALSE]
    /\ enabled_call = [called |-> FALSE, level |-> LogLevel.Error, target |-> <<>>,
                       result |-> FALSE]
    /\ cloned = [count |-> 0,
                 logger |-> StdErrLog(LogLevelFilter.Off, FALSE, "Off", <<>>, EmptyCache, "Auto")]
    /\ LOGGER_STATE = "UNINITIALIZED"
    /\ LOGGER = [set |-> FALSE,
                 logger |-> StdErrLog(LogLevelFilter.Off, FALSE, "Off", <<>>, EmptyCache, "Auto")]
    /\ MAX_LOG_LEVEL_FILTER = LogLevelFilter.Off
    /\ init_pc = [t \in Threads |-> "idle"]
    /\ init_ticket = [t \in Threads |-> 0]
    /\ init_count = 0
    /\ init_results = <<>>
    /\ writer = EmptyCache
    /\ log_pc = [t \in Threads |-> "idle"]
    /\ log_rec = [t \in Threads |-> NoRecord]
    /\ todo = [t \in Threads |-> <<>>]
    /\ logged = [t \in Threads |-> 0]
    /\ returned = [t \in Threads |-> 0]
    /\ failed = [t \in Threads |-> {}]
    /\ failures = 0
    /\ stderr = <<>>

\* a method taking &mut self runs only while no other call borrows the logger
Exclusive == \A t \in Threads : init_pc[t] = "idle" /\ log_pc[t] \in {"idle", "panicked"}

\* module(p), lib.rs 284-286
Module(p) ==
    /\ Exclusive
    /\ calls < MaxInserts
    /\ modules' = _module(modules, p)
    /\ inserted' = inserted \cup {p}
    /\ calls' = calls + 1
    /\ lastModule' = p
    /\ lastBefore' = modules
    /\ lastDrained' = drained(modules, p)
    /\ UNCHANGED <<levelVars, styleVars, callVars, facadeVars, emitVars>>

\* modules(items), lib.rs 308-315
Modules(items) ==
    LET n == Len(items)
        before == modules_fold(modules, SubSeq(items, 1, n - 1))
    IN  /\ Exclusive
        /\ calls + n <= MaxInserts
        /\ modules' = modules_fold(modules, items)
        /\ inserted' = inserted \cup {items[k] : k \in 1..n}
        /\ calls' = calls + n
        /\ lastModule' = items[n]
        /\ lastBefore' = before
        /\ lastDrained' = drained(before, items[n])
        /\ UNCHANGED <<levelVars, styleVars, callVars, facadeVars, emitVars>>

Batches == UNION {[1..n -> Paths] : n \in 2..MaxBatch}

\* verbosity(n), lib.rs 252-263
Verbosity(n) ==
    /\ Exclusive
    /\ verbosity' = verbosity_level(n)
    /\ verbosity_arg' = n
    /\ UNCHANGED <<quiet, filterVars, styleVars, callVars, facadeVars, emitVars>>

\* quiet(b), lib.rs 265-269
Quiet(b) ==
    /\ Exclusive
    /\ quiet' = b
    /\ UNCHANGED <<verbosity, verbosity_arg, filterVars, styleVars, callVars, facadeVars, emitVars>>

\* timestamp(ts), lib.rs 272-275
Timestamp(ts) ==
    /\ Exclusive
    /\ timestamp' = ts
    /\ UNCHANGED <<color_choice, levelVars, filterVars, callVars, facadeVars, emitVars>>

\* color(choice), lib.rs 278-281
Color(choice) ==
    /\ Exclusive
    /\ color_choice' = choice
    /\ UNCHANGED <<timestamp, levelVars, filterVars, callVars, facadeVars, emitVars>>

\* enabled(metadata), lib.rs 192-194
Enabled(level, target) ==
    /\ enabled_call' = [called |-> TRUE, level |-> level, target |-> target,
                        result |-> enabled(quiet, verbosity, modules, level, target)]
    /\ UNCHANGED <<levelVars, filterVars, styleVars, sub_call, cloned, facadeVars, emitVars>>

\* one call of is_submodule, lib.rs 369-389
IsSubmodule(parent, possible_child) ==
    /\ sub_call' = [called |-> TRUE, parent |-> parent, possible_child |-> possible_child,
                    result |-> is_submodule(parent, possible_child)]
    /\ UNCHANGED <<levelVars, filterVars, styleVars, enabled_call, cloned, facadeVars, emitVars>>

(***************************************************************************)
(* init, lib.rs 349-355, on top of log::set_logger: the facade admits the  *)
(* call by a compare-and-swap on its state, runs the closure (which sets   *)
(* the maximum level and clones the logger), stores the logger and marks   *)
(* the state INITIALIZED.  A call not admitted returns Err at once.        *)
(***************************************************************************)
\* number of init calls in one behaviour
MaxInits == 3

self == StdErrLog(verbosity, quiet, timestamp, modules, writer, color_choice)

InitResult(t, ticket, result) ==
    [thread |-> t, ticket |-> ticket, result |-> result,
     quiet |-> quiet, verbosity |-> verbosity]

\* init(): log::set_logger is entered and does its compare-and-swap
InitCall(t) ==
    /\ init_pc[t] = "idle"
    /\ init_count < MaxInits
    /\ init_count' = init_count + 1
    /\ IF cas_admits(LOGGER_STATE)
       THEN /\ LOGGER_STATE' = "INITIALIZING"
            /\ init_pc' = [init_pc EXCEPT ![t] = "set_max"]
            /\ init_ticket' = [init_ticket EXCEPT ![t] = init_count + 1]
            /\ UNCHANGED init_results
       ELSE \* return Err(SetLoggerError): the closure is never called
            /\ init_results' = Append(init_results, InitResult(t, init_count + 1, "Err"))
            /\ UNCHANGED <<LOGGER_STATE, init_pc, init_ticket>>
    /\ UNCHANGED <<LOGGER, MAX_LOG_LEVEL_FILTER>>
    /\ UNCHANGED <<levelVars, filterVars, styleVars, callVars, emitVars>>

\* the closure: max_log_level.set(self.log_level_filter()), lib.rs 351
InitSetMax(t) ==
    /\ init_pc[t] = "set_max"
    /\ MAX_LOG_LEVEL_FILTER' = log_level_filter(quiet, verbosity)
    /\ init_pc' = [init_pc EXCEPT ![t] = "set_logger"]
    /\ UNCHANGED <<LOGGER_STATE, LOGGER, init_ticket, init_count, init_results>>
    /\ UNCHANGED <<levelVars, filterVars, styleVars, callVars, emitVars>>

\* the closure: Box::new(self.clone()), lib.rs 353, stored in LOGGER
InitSetLogger(t) ==
    /\ init_pc[t] = "set_logger"
    /\ LOGGER' = [set |-> TRUE, logger |-> clone(self)]
    /\ init_pc' = [init_pc EXCEPT ![t] = "store"]
    /\ UNCHANGED <<LOGGER_STATE, MAX_LOG_LEVEL_FILTER, init_ticket, init_count, init_results>>
    /\ UNCHANGED <<levelVars, filterVars, styleVars, callVars, emitVars>>

\* STATE.store(INITIALIZED); return Ok(())
InitReturn(t) ==
    /\ init_pc[t] = "store"
    /\ LOGGER_STATE' = "INITIALIZED"
    /\ init_pc' = [init_pc EXCEPT ![t] = "idle"]
    /\ init_results' = Append(init_results, InitResult(t, init_ticket[t], "Ok"))
    /\ UNCHANGED <<LOGGER, MAX_LOG_LEVEL_FILTER, init_ticket, init_count>>
    /\ UNCHANGED <<levelVars, filterVars, styleVars, callVars, emitVars>>

(***************************************************************************)
(* log(record), lib.rs 196-235, step by step: each step ends with at most  *)
(* one write to the shared stream.                                         *)
(***************************************************************************)
\* an I/O operation succeeds or fails
IoOutcomes == IF failures < MaxFailures THEN {TRUE, FALSE} ELSE {TRUE}

RECURSIVE SumOver(_, _)
SumOver(f, S) ==
    IF S = {} THEN 0
    ELSE LET x == CHOOSE y \in S : TRUE IN f[x] + SumOver(f, S \ {x})

\* log calls made so far
LogCalls == SumOver(logged, Threads)

\* the call is made: the quick out at lib.rs 199-201, else the thread's
\* writer is fetched (created on first use) and borrowed
LogCall(t, level, target, len) ==
    LET rec == Record(<<t, logged[t] + 1>>, level, target, len)
    IN  /\ log_pc[t] = "idle"
        /\ init_pc[t] = "idle"
        /\ LogCalls < MaxLogs
        /\ logged' = [logged EXCEPT ![t] = @ + 1]
        /\ IF ~enabled(quiet, verbosity, modules, level, target)
           THEN /\ returned' = [returned EXCEPT ![t] = @ + 1]
                /\ log_rec' = [log_rec EXCEPT ![t] = rec]
                /\ UNCHANGED <<writer, log_pc, todo>>
           ELSE /\ \E colored \in ColoredOutcomes(color_choice) :
                       writer' = [writer EXCEPT ![t] = get_or(@, colored)]
                /\ log_pc' = [log_pc EXCEPT ![t] = "set_color"]
                /\ log_rec' = [log_rec EXCEPT ![t] = rec]
                /\ UNCHANGED <<returned, todo>>
        /\ UNCHANGED <<failed, failures, stderr>>
        /\ UNCHANGED <<levelVars, filterVars, styleVars, callVars, facadeVars>>

\* the thread unwinds: the RefMut is dropped, the call never returns
Panic(t) ==
    /\ log_pc' = [log_pc EXCEPT ![t] = "panicked"]
    /\ writer' = [writer EXCEPT ![t].borrowed = FALSE]
    /\ todo' = [todo EXCEPT ![t] = <<>>]
    /\ UNCHANGED <<log_rec, logged, returned>>

\* writer.get_mut().set_color(..).expect("failed to set color"), lib.rs 214
SetColor(t) ==
    /\ log_pc[t] = "set_color"
    /\ \E ok \in (IF writer[t].colored THEN IoOutcomes ELSE {TRUE}) :
          /\ stderr' = IF ok /\ writer[t].colored
                       THEN Append(stderr, ColorChunk(t, log_rec[t], "set",
                                                      level_color(log_rec[t].level)))
                       ELSE stderr
          /\ failures' = IF ok THEN failures ELSE failures + 1
          /\ failed' = IF ok THEN failed ELSE [failed EXCEPT ![t] = @ \cup {"set_color"}]
          /\ IF expect(ok) = "panic"
             THEN Panic(t)
             ELSE /\ log_pc' = [log_pc EXCEPT ![t] = "timestamp"]
                  /\ todo' = [todo EXCEPT ![t] = timestamp_pieces(timestamp, log_rec[t])]
                  /\ UNCHANGED <<writer, log_rec, logged, returned>>
    /\ UNCHANGED <<levelVars, filterVars, styleVars, callVars, facadeVars>>

\* one step of a write!/writeln! on the LineWriter: the pieces that only
\* enter the buffer are buffered; the first piece that needs the stream
\* causes one write (a retry of a line whose flush failed, a flush of a
\* buffer about to overflow, a direct write of an oversized piece, or the
\* flush of a completed line).  An error ends the macro.
WriteStep(t, step, next_pc, next_todo) ==
    LET h == writer[t]
        retry == h.need_flush /\ h.buf # <<>>
        adv == IF retry THEN [buf |-> h.buf, todo |-> todo[t]]
               ELSE buffer_pieces(h.buf, todo[t])
    IN  IF adv.todo = <<>>
        THEN /\ writer' = [writer EXCEPT ![t].buf = adv.buf]
             /\ log_pc' = [log_pc EXCEPT ![t] = next_pc]
             /\ todo' = [todo EXCEPT ![t] = next_todo]
             /\ UNCHANGED <<log_rec, logged, returned, failed, failures, stderr>>
        ELSE \E ok \in IoOutcomes :
             LET p == Head(adv.todo)
                 overflow == ~retry /\ adv.buf # <<>>
                                /\ BufLen(adv.buf) + p.len > LineWriterCapacity
                 direct == ~retry /\ ~overflow /\ ~p.nl
                 line == ~retry /\ ~overflow /\ p.nl
                 segs == IF retry \/ overflow THEN adv.buf
                         ELSE IF direct THEN <<p>>
                         ELSE Append(adv.buf, p)
                 rest == IF retry \/ overflow THEN adv.todo ELSE Tail(adv.todo)
                 \* a failed flush of a completed line is reported as Ok by
                 \* the LineWriter, which keeps the line for a later retry
                 kept == IF ok THEN <<>> ELSE IF line THEN segs ELSE adv.buf
                 aborted == ~ok /\ ~line
                 left == IF aborted THEN <<>> ELSE rest
             IN  /\ stderr' = IF ok THEN Append(stderr, TextChunk(t, log_rec[t], segs))
                              ELSE stderr
                 /\ failures' = IF ok THEN failures ELSE failures + 1
                 /\ failed' = IF ok THEN failed ELSE [failed EXCEPT ![t] = @ \cup {step}]
                 /\ IF aborted /\ write_result(ok) = "panic"
                    THEN Panic(t)
                    ELSE /\ writer' = [writer EXCEPT
                                          ![t].buf = kept,
                                          ![t].need_flush =
                                              IF ok THEN FALSE
                                              ELSE IF line THEN TRUE ELSE h.need_flush]
                         /\ log_pc' = [log_pc EXCEPT ![t] = IF left = <<>> THEN next_pc ELSE @]
                         /\ todo' = [todo EXCEPT ![t] = IF left = <<>> THEN next_todo ELSE left]
                         /\ UNCHANGED <<log_rec, logged, returned>>

\* the match on self.timestamp, lib.rs 216-230
WriteTimestamp(t) ==
    /\ log_pc[t] = "timestamp"
    /\ WriteStep(t, "timestamp", "body", body_pieces(log_rec[t]))
    /\ UNCHANGED <<levelVars, filterVars, styleVars, callVars, facadeVars>>

\* let _ = writeln!(writer, "{} - {}", ..), lib.rs 231
WriteBody(t) ==
    /\ log_pc[t] = "body"
    /\ WriteStep(t, "body", "reset", <<>>)
    /\ UNCHANGED <<levelVars, filterVars, styleVars, callVars, facadeVars>>

\* writer.get_mut().reset().expect("failed to reset the color"), lib.rs 233,
\* and the return
ResetColor(t) ==
    /\ log_pc[t] = "reset"
    /\ \E ok \in (IF writer[t].colored THEN IoOutcomes ELSE {TRUE}) :
          /\ stderr' = IF ok /\ writer[t].colored
                       THEN Append(stderr, ColorChunk(t, log_rec[t], "reset", ""))
                       ELSE stderr
          /\ failures' = IF ok THEN failures ELSE failures + 1
          /\ failed' = IF ok THEN failed ELSE [failed EXCEPT ![t] = @ \cup {"reset"}]
          /\ IF expect(ok) = "panic"
             THEN Panic(t)
             ELSE /\ log_pc' = [log_pc EXCEPT ![t] = "idle"]
                  /\ writer' = [writer EXCEPT ![t].borrowed = FALSE]
                  /\ returned' = [returned EXCEPT ![t] = @ + 1]
                  /\ UNCHANGED <<log_rec, logged, todo>>
    /\ UNCHANGED <<levelVars, filterVars, styleVars, callVars, facadeVars>>

(***************************************************************************)
(* SpecEmit: timestamp and color are configured, then the threads log      *)
(* through the one logger.  The configuration precedes the logging: the    *)
(* setters take &mut self, which the threads sharing the logger exclude.   *)
(***************************************************************************)
Configuring == LogCalls = 0

\* the levels and the target of the records logged
EmitLevels == {LogLevel.Error, LogLevel.Warn}
EmitTarget == P_a_b
\* a module the target does not belong to
OtherModule == P_x_y

NextEmit ==
    \/ \E ts \in TimestampModes : Configuring /\ Timestamp(ts)
    \/ \E choice \in ColorChoices : Configuring /\ Color(choice)
    \/ \E b \in BOOLEAN : Configuring /\ Quiet(b)
    \/ Configuring /\ Module(OtherModule)
    \/ \E t \in Threads, level \in EmitLevels, len \in MsgLens :
           LogCall(t, level, EmitTarget, len)
    \/ \E t \in Threads : SetColor(t)
    \/ \E t \in Threads : WriteTimestamp(t)
    \/ \E t \in Threads : WriteBody(t)
    \/ \E t \in Threads : ResetColor(t)

SpecEmit == Init /\ [][NextEmit]_vars

(***************************************************************************)
(* SpecInit: threads configure verbosity and quiet and call init().        *)
(***************************************************************************)
NextInit ==
    \/ \E n \in 0..MaxVerbosity : Verbosity(n)
    \/ \E b \in BOOLEAN : Quiet(b)
    \/ \E t \in Threads : InitCall(t)
    \/ \E t \in Threads : InitSetMax(t)
    \/ \E t \in Threads : InitSetLogger(t)
    \/ \E t \in Threads : InitReturn(t)

SpecInit == Init /\ [][NextInit]_vars

(***************************************************************************)
(* SpecClone: the logger is configured, then threads log through it while  *)
(* it is cloned.  clone() takes &self, so it runs at any point of the      *)
(* other threads' log calls.                                               *)
(***************************************************************************)
\* clone() calls in one behaviour
MaxClones == 2

\* self.clone(), lib.rs 181-189
Clone ==
    /\ cloned.count < MaxClones
    /\ cloned' = [count |-> cloned.count + 1, logger |-> clone(self)]
    /\ UNCHANGED <<sub_call, enabled_call>>
    /\ UNCHANGED <<levelVars, filterVars, styleVars, facadeVars, emitVars>>

\* the configuration is finished before the first log call and the first clone
Preparing == Configuring /\ cloned.count = 0

NextClone ==
    \/ Preparing /\ Verbosity(3)
    \/ \E b \in BOOLEAN : Preparing /\ Quiet(b)
    \/ Preparing /\ Timestamp("Second")
    \/ Preparing /\ Color("Always")
    \/ Preparing /\ calls = 0 /\ Module(P_a)
    \/ \E t \in Threads : LogCall(t, LogLevel.Error, EmitTarget, ShortMsg)
    \/ \E t \in Threads : SetColor(t)
    \/ \E t \in Threads : WriteTimestamp(t)
    \/ \E t \in Threads : WriteBody(t)
    \/ \E t \in Threads : ResetColor(t)
    \/ Clone

SpecClone == Init /\ [][NextClone]_vars

(***************************************************************************)
(* Spec: the module filter under any sequence of module()/modules() calls. *)
(***************************************************************************)
Next ==
    \/ \E p \in Paths : Module(p)
    \/ \E items \in Batches : Modules(items)

Spec == Init /\ [][Next]_vars

(***************************************************************************)
(* SpecSub: is_submodule on every pair of paths.                           *)
(***************************************************************************)
NextSub == \E parent \in Paths, possible_child \in Paths : IsSubmodule(parent, possible_child)

SpecSub == Init /\ [][NextSub]_vars

(***************************************************************************)
(* SpecEnabled: a logger is configured (verbosity, quiet, modules) and     *)
(* asked whether records are enabled.                                      *)
(***************************************************************************)
\* the modules configured and the targets asked about
ConfiguredPaths == {P_a_b_c, P_a, P_x_y}
Targets == {P_a_b_c, P_a_b_c_d, P_a_bad_c, P_x_y, P_a_b}

NextEnabled ==
    \/ \E n \in 0..MaxVerbosity : Verbosity(n)
    \/ \E b \in BOOLEAN : Quiet(b)
    \/ \E p \in ConfiguredPaths : Module(p)
    \/ \E level \in Levels, target \in Targets : Enabled(level, target)

SpecEnabled == Init /\ [][NextEnabled]_vars

(***************************************************************************)
(* Ancestry as the specification defines it: Q equals P, or Q begins with  *)
(* P immediately followed by the separator "::".                           *)
(***************************************************************************)
IsAncestor(P, Q) ==
    \/ Q = P
    \/ /\ Len(Q) >= Len(P) + 2
       /\ \A k \in 1..Len(P) : Q[k] = P[k]
       /\ Q[Len(P) + 1] = Colon
       /\ Q[Len(P) + 2] = Colon

Stored == {modules[k] : k \in 1..Len(modules)}

\* C1: after any sequence of module()/modules() calls, over arbitrary path
\* strings, no two distinct stored paths are related by ancestry.
C1_Antichain ==
    \A P \in Stored, Q \in Stored : P # Q => ~IsAncestor(P, Q)

\* C2: once a path was inserted, includes_module(q) holds exactly when some
\* inserted path is an ancestor of q.
C2_IncludesIffInsertedAncestor ==
    inserted # {} =>
        \A q \in Paths :
            includes_module(modules, q) <=> \E p \in inserted : IsAncestor(p, q)

\* C3: is_submodule(P, Q) is true exactly when Q equals P or Q begins with P
\* followed by "::"; in particular it is false when Q is shorter than P and
\* for P = "a::b::c", Q = "a::b::cab".
C3_SubmoduleIsAncestry ==
    sub_call.called =>
        /\ sub_call.result = IsAncestor(sub_call.parent, sub_call.possible_child)
        /\ Len(sub_call.possible_child) < Len(sub_call.parent) => ~sub_call.result
        /\ (sub_call.parent = P_a_b_c /\ sub_call.possible_child = P_a_b_cab)
               => ~sub_call.result

\* is_submodule was called on a pair that shares a byte prefix without a
\* separator boundary
C3_Witness ==
    /\ sub_call.called
    /\ sub_call.parent = P_a_b_c
    /\ sub_call.possible_child = P_a_b_cab
    /\ sub_call.result = FALSE

\* C4: enabled(level, target) is true iff level <= effective threshold (Off
\* when quiet, else the stored verbosity) and includes_module(target); with
\* modules = ["a::b::c"] and verbosity Info, (Info, "a::b::c::d") is enabled
\* and (Info, "a::bad::c"), (Debug, "a::b::c"), (Error, "x::y") are not.
C4_EnabledStep ==
    LET threshold == IF quiet THEN LogLevelFilter.Off ELSE verbosity
        level == enabled_call'.level
        target == enabled_call'.target
        result == enabled_call'.result
    IN  /\ result = (level <= threshold /\ includes_module(modules, target))
        /\ (modules = <<P_a_b_c>> /\ threshold = LogLevelFilter.Info) =>
               /\ (level = LogLevel.Info /\ target = P_a_b_c_d) => result
               /\ (level = LogLevel.Info /\ target = P_a_bad_c) => ~result
               /\ (level = LogLevel.Debug /\ target = P_a_b_c) => ~result
               /\ (level = LogLevel.Error /\ target = P_x_y) => ~result

\* C4: every enabled() call returns level <= threshold /\ includes_module
C4_EnabledIffLevelAndModule ==
    [][enabled_call' # enabled_call => C4_EnabledStep]_vars

\* the scenario of the claim: modules = ["a::b::c"], verbosity Info, and
\* (Info, "a::b::c::d") found enabled
C4_Witness ==
    /\ modules = <<P_a_b_c>>
    /\ verbosity = LogLevelFilter.Info
    /\ ~quiet
    /\ enabled_call.called
    /\ enabled_call.level = LogLevel.Info
    /\ enabled_call.target = P_a_b_c_d
    /\ enabled_call.result = TRUE

\* C7: a call that inserts a path P not covered before leaves P stored and
\* no strict descendant of P in the list.
C7_InsertAbsorbsDescendants ==
    (/\ lastModule # None
     /\ \A k \in 1..Len(lastBefore) : ~IsAncestor(lastBefore[k], lastModule))
        => /\ lastModule \in Stored
           /\ \A Q \in Stored : Q # lastModule => ~IsAncestor(lastModule, Q)

Results == {init_results[k] : k \in 1..Len(init_results)}

\* C9: over any sequence of init() calls, racing or not, exactly the first
\* succeeds; every later call returns Err, and once a logger is being
\* registered no other call changes the logger or the maximum level.
C9_ResultsInv ==
    /\ \A r \in Results : r.result = "Ok" <=> r.ticket = 1
    /\ Cardinality({t \in Threads : init_pc[t] # "idle"}) <= 1

C9_ErrStep ==
    (Len(init_results') > Len(init_results)
         /\ init_results'[Len(init_results')].result = "Err")
        => (LOGGER' = LOGGER /\ MAX_LOG_LEVEL_FILTER' = MAX_LOG_LEVEL_FILTER
            /\ LOGGER_STATE' = LOGGER_STATE)

C9_RegisteredStep ==
    LOGGER_STATE = "INITIALIZED"
        => (LOGGER' = LOGGER /\ MAX_LOG_LEVEL_FILTER' = MAX_LOG_LEVEL_FILTER
            /\ LOGGER_STATE' = LOGGER_STATE)

\* C9: exactly the first init() succeeds, later calls return Err and change
\* neither the registered logger nor the maximum level
C9_OnlyFirstInitSucceeds ==
    []C9_ResultsInv /\ [][C9_ErrStep /\ C9_RegisteredStep]_vars

\* two calls raced: one returned Err while the first was still initialising,
\* then the first returned Ok
C9_Witness ==
    /\ Len(init_results) >= 2
    /\ init_results[1].result = "Err"
    /\ init_results[2].result = "Ok"
    /\ init_results[1].thread # init_results[2].thread

\* C10: after a successful init() the global maximum level is the logger's
\* effective threshold at the moment of init: the stored verbosity when
\* quiet is false, Off when quiet is true.
C10_MaxLevelIsThreshold ==
    \A r \in Results :
        r.result = "Ok" =>
            MAX_LOG_LEVEL_FILTER =
                (IF r.quiet THEN LogLevelFilter.Off ELSE r.verbosity)

\* a quiet logger with verbosity Debug was registered
C10_Witness ==
    \E r \in Results :
        /\ r.result = "Ok"
        /\ r.quiet
        /\ r.verbosity = LogLevelFilter.Debug
        /\ MAX_LOG_LEVEL_FILTER = LogLevelFilter.Off
        /\ LOGGER.set
        /\ LOGGER.logger.quiet

\* the text pieces received by the stream, in order
RECURSIVE StreamSegs(_)
StreamSegs(stream) ==
    IF stream = <<>> THEN <<>>
    ELSE Head(stream).segs \o StreamSegs(Tail(stream))

\* C5: in every interleaving of the threads' log calls, no line of the
\* stream contains bytes of two different records.
C5_NoTornLine ==
    LET segs == StreamSegs(stderr)
    IN  \A k \in 1..(Len(segs) - 1) :
            ~segs[k].nl => segs[k + 1].rec = segs[k].rec

\* C6: a thread's color-set, line and color-reset reach the stream as one
\* unit: after a thread's color-set no other thread's write is received
\* before the matching reset.
C6_ColorSectionUninterrupted ==
    \A i \in 1..Len(stderr), k \in 1..Len(stderr) :
        (i < k /\ stderr[i].kind = "set" /\ stderr[k].thread # stderr[i].thread)
            => \E j \in (i + 1)..(k - 1) :
                   stderr[j].kind = "reset" /\ stderr[j].rec = stderr[i].rec

\* C8 (as claimed): no failure of the timestamp write, body write, color-set
\* or color-reset makes log() panic.
C8_NoFailureReachesCaller ==
    \A t \in Threads : log_pc[t] # "panicked"

\* C8 (amended): a failed timestamp or body write is discarded and log()
\* goes on to return normally; log() panics exactly when the color-set or
\* the color-reset failed.
C8_OnlyColorFailuresPanic ==
    \A t \in Threads :
        /\ log_pc[t] = "panicked" <=> (failed[t] \cap {"set_color", "reset"}) # {}
        /\ log_pc[t] = "idle" => returned[t] = logged[t]

\* a body write failed before the line was complete (the flush of an
\* overflowing buffer), and the call returned normally
C8_Witness ==
    \E t \in Threads :
        /\ "body" \in failed[t]
        /\ log_pc[t] = "idle"
        /\ returned[t] = 1
        /\ logged[t] = 1
        /\ log_rec[t].len = LongMsg
        /\ stderr # <<>>

\* C11: when quiet is true, enabled(level, target) is false for every level
\* and every target, whatever verbosity and modules were configured.
C11_QuietDisablesAll ==
    [][(enabled_call' # enabled_call /\ quiet) => ~enabled_call'.result]_vars

\* a quiet logger at verbosity Trace was asked about an Error record of a
\* configured module and answered false
C11_Witness ==
    /\ quiet
    /\ verbosity = LogLevelFilter.Trace
    /\ modules = <<P_a_b_c>>
    /\ enabled_call.called
    /\ enabled_call.level = LogLevel.Error
    /\ enabled_call.target = P_a_b_c
    /\ enabled_call.result = FALSE

\* C12: verbosity(n) saturates the repeat count: 0 gives Error, 1 Warn,
\* 2 Info, 3 Debug, every n >= 4 Trace; a logger on which verbosity was never
\* called has threshold Error.
C12_VerbosityMapping ==
    /\ verbosity_arg = -1 => verbosity = LogLevelFilter.Error
    /\ verbosity_arg = 0 => verbosity = LogLevelFilter.Error
    /\ verbosity_arg = 1 => verbosity = LogLevelFilter.Warn
    /\ verbosity_arg = 2 => verbosity = LogLevelFilter.Info
    /\ verbosity_arg = 3 => verbosity = LogLevelFilter.Debug
    /\ verbosity_arg >= 4 => verbosity = LogLevelFilter.Trace

\* verbosity was called with a count above 4 and the threshold is Trace
C12_Witness ==
    /\ verbosity_arg > 4
    /\ verbosity = LogLevelFilter.Trace

\* C13: for every path p and every reachable list, inserting p a second time
\* right after inserting it once leaves the list as the first insertion left
\* it; a module(p) call that repeats the previous call's argument changes
\* nothing.
C13_InsertIdempotent ==
    /\ [](\A p \in Paths : _module(_module(modules, p), p) = _module(modules, p))
    /\ [][(calls' = calls + 1 /\ lastModule' = lastModule) => modules' = modules]_vars

\* "a::b" was inserted twice in a row into a list that held "a::b::c": the
\* first call drained the child, the second found the list as the first left it
C13_Witness ==
    /\ calls = 3
    /\ inserted = {P_a_b_c, P_a_b}
    /\ lastModule = P_a_b
    /\ lastBefore = <<P_a_b>>
    /\ modules = <<P_a_b>>

\* C14: while the module list is empty includes_module(q) is true for every
\* path q, and an enabled call is answered by the level threshold alone.
C14_EmptyListIncludesAll ==
    /\ [](modules = <<>> => \A q \in Paths : includes_module(modules, q))
    /\ [][(enabled_call' # enabled_call /\ modules = <<>>)
            => enabled_call'.result =
                   (enabled_call'.level <= (IF quiet THEN LogLevelFilter.Off ELSE verbosity))]_vars

\* no module was ever inserted, and a Warn record of "x::y" was found enabled
\* at threshold Warn
C14_Witness ==
    /\ inserted = {}
    /\ modules = <<>>
    /\ ~quiet
    /\ verbosity = LogLevelFilter.Warn
    /\ enabled_call.called
    /\ enabled_call.level = LogLevel.Warn
    /\ enabled_call.target = P_x_y
    /\ enabled_call.result = TRUE

\* C15: a log call whose record is not enabled returns at once and has no
\* effect: nothing reaches stderr (no text, no color sequence), no write is
\* attempted, and no thread's writer handle is created or borrowed.
C15_DisabledLogHasNoEffect ==
    [][\A t \in Threads :
          (/\ logged'[t] = logged[t] + 1
           /\ \/ log_rec'[t].level > (IF quiet THEN LogLevelFilter.Off ELSE verbosity)
              \/ ~includes_module(modules, log_rec'[t].target))
          => /\ stderr' = stderr
             /\ writer' = writer
             /\ todo' = todo
             /\ failures' = failures
             /\ log_pc'[t] = "idle"
             /\ returned'[t] = returned[t] + 1]_vars

\* a thread's only log call was for a Warn record at threshold Error: it has
\* returned, the thread has no writer handle and stderr is empty
C15_Witness ==
    \E t \in Threads :
        /\ ~quiet
        /\ modules = <<>>
        /\ verbosity = LogLevelFilter.Error
        /\ logged[t] = 1
        /\ returned[t] = 1
        /\ log_rec[t].level = LogLevel.Warn
        /\ ~writer[t].cached
        /\ stderr = <<>>

\* C16: clone() yields a logger whose verbosity, quiet flag, timestamp mode,
\* color mode and module list equal the original's and whose writer cache
\* holds no handle for any thread, whatever the original has cached; the call
\* leaves the original as it was, and what the original's threads do to
\* their handles afterwards never shows in the clone.
C16_CloneCopiesConfigNotWriter ==
    /\ [][cloned'.count = cloned.count + 1
            => /\ cloned'.logger.verbosity = verbosity
               /\ cloned'.logger.quiet = quiet
               /\ cloned'.logger.timestamp = timestamp
               /\ cloned'.logger.color_choice = color_choice
               /\ cloned'.logger.modules = modules
               /\ \A t \in Threads : cloned'.logger.writer[t] = NoHandle
               /\ <<verbosity, quiet, timestamp, color_choice, modules, writer>>'
                      = <<verbosity, quiet, timestamp, color_choice, modules, writer>>]_vars
    /\ [][cloned'.count = cloned.count => cloned'.logger = cloned.logger]_vars

\* a logger configured with verbosity 3, a timestamp and the module "a" was
\* cloned while holding writer handles for its threads: the clone has the
\* configuration and no handle
C16_Witness ==
    /\ cloned.count > 0
    /\ \E t \in Threads : writer[t].cached /\ writer[t].borrowed
    /\ \E t \in Threads : writer[t].cached /\ ~writer[t].borrowed
    /\ cloned.logger.verbosity = LogLevelFilter.Debug
    /\ cloned.logger.timestamp = "Second"
    /\ cloned.logger.modules = <<P_a>>
    /\ cloned.logger.writer = EmptyCache

\* C17: for every reachable non-empty list and every query q,
\* includes_module(q) answers as a linear scan that tests is_submodule(m, q)
\* for every stored m: a stored ancestor of q, if there is one, is the entry
\* right before q's binary-search position.
C17_IncludesIsLinearScan ==
    modules # <<>> =>
        \A q \in Paths :
            includes_module(modules, q) <=> \E m \in Stored : is_submodule(m, q)

\* strictly ascending under the byte-wise comparison
Ascending(list) ==
    \A k \in 1..(Len(list) - 1) : cmp(list[k], list[k + 1]) = -1

\* C18: after any sequence of insertions the module list is strictly
\* ascending byte-wise (sorted, no duplicates), and so was the list every
\* _module call searched.
C18_StrictlyAscending ==
    /\ Ascending(modules)
    /\ Ascending(lastBefore)

\* three paths are stored, the latest put between two others:
\* "a" < "a1" < "x::y"
C18_Witness ==
    /\ modules = <<P_a, P_a1, P_x_y>>
    /\ lastModule = P_a1
    /\ lastBefore = <<P_a, P_x_y>>

\* the orders in which the paths of a set can be handed over
Orders(S) ==
    {s \in [1..Cardinality(S) -> S] : \A i, j \in DOMAIN s : i # j => s[i] # s[j]}

\* C19: inserting a collection of paths in any two orders yields the same
\* module list: the list reached by inserting distinct paths is the list
\* every other order of the same paths yields.
C19_OrderIndependent ==
    calls = Cardinality(inserted) =>
        \A s \in Orders(inserted) : modules_fold(<<>>, s) = modules

\* C20: once the list is non-empty, a path that is included stays included
\* over every further insertion.
C20_CoverageNeverShrinks ==
    [][modules # <<>> =>
          \A q \in Paths : includes_module(modules, q) => includes_module(modules', q)]_vars
====
